---- MODULE Spec2Model ----
(***************************************************************************)
(* RomSorter (rom_sorter.py): one batch run of process_roms over a file    *)
(* tree, and the pure helpers normalize_name and get_rom_rank_vector.      *)
(*                                                                         *)
(* Strings are sequences of one-character strings, so that the regular     *)
(* expressions, str.lower, str.strip, pathlib's stem/suffix and the        *)
(* substring test are computed character by character.  The only           *)
(* whitespace character of the alphabet is the space; no name contains a   *)
(* newline.                                                                *)
(***************************************************************************)
EXTENDS Integers, Sequences, FiniteSets, TLC

\* ------------------------------------------------------------------ bounds
MaxFiles == 3
MaxFailures == 1
MaxDenied == 1
MaxLen == 3

\* ------------------------------------------------------- characters, text
Lowers == <<"a","b","c","d","e","f","g","h","i","j","k","l","m",
            "n","o","p","q","r","s","t","u","v","w","x","y","z">>
Uppers == <<"A","B","C","D","E","F","G","H","I","J","K","L","M",
            "N","O","P","Q","R","S","T","U","V","W","X","Y","Z">>
Digits == {"0","1","2","3","4","5","6","7","8","9"}
Whitespace == {" "}

Range(s) == {s[i] : i \in 1..Len(s)}

\* str.lower() on one character
LowerChar(c) ==
  IF \E i \in 1..Len(Uppers) : Uppers[i] = c
  THEN Lowers[CHOOSE i \in 1..Len(Uppers) : Uppers[i] = c]
  ELSE c

\* str.lower()
LowerStr(s) == [i \in 1..Len(s) |-> LowerChar(s[i])]

RECURSIVE LStrip(_)
LStrip(s) ==
  IF s # <<>> /\ Head(s) \in Whitespace THEN LStrip(Tail(s)) ELSE s

RECURSIVE RStrip(_)
RStrip(s) ==
  IF s # <<>> /\ s[Len(s)] \in Whitespace
  THEN RStrip(SubSeq(s, 1, Len(s) - 1)) ELSE s

\* str.strip()
Strip(s) == RStrip(LStrip(s))

\* str.endswith(suf)
EndsWith(s, suf) ==
  /\ Len(suf) <= Len(s)
  /\ SubSeq(s, Len(s) - Len(suf) + 1, Len(s)) = suf

\* `sub in s` for strings
IsSubstring(sub, s) ==
  \E i \in 0..(Len(s) - Len(sub)) : SubSeq(s, i + 1, i + Len(sub)) = sub

\* index of the last "." of a name, 0 when there is none (str.rfind, 1-based)
LastDot(name) ==
  IF \E i \in 1..Len(name) : name[i] = "."
  THEN CHOOSE i \in 1..Len(name) :
         name[i] = "." /\ \A j \in (i + 1)..Len(name) : name[j] # "."
  ELSE 0

\* pathlib.PurePath.suffix: the last dot starts the suffix unless it is the
\* first or the last character of the name
Suffix(name) ==
  LET i == LastDot(name)
  IN IF 1 < i /\ i < Len(name) THEN SubSeq(name, i, Len(name)) ELSE <<>>

\* pathlib.PurePath.stem
Stem(name) ==
  LET i == LastDot(name)
  IN IF 1 < i /\ i < Len(name) THEN SubSeq(name, 1, i - 1) ELSE name

\* ---------------------------------------------------------- normalize_name
Closer(c) == IF c = "(" THEN ")" ELSE IF c = "{" THEN "}" ELSE "]"

\* re.sub(r'\(.*?\)|\{.*?}|\[.*?]', '', name): leftmost match, each opener
\* closed by the first matching closer after it
RECURSIVE RemoveBracketed(_)
RemoveBracketed(s) ==
  IF s = <<>> THEN <<>>
  ELSE LET c == Head(s)
           ks == {k \in 2..Len(s) : s[k] = Closer(c)}
       IN IF c \in {"(", "{", "["} /\ ks # {}
          THEN LET k == CHOOSE x \in ks : \A y \in ks : x <= y
               IN RemoveBracketed(SubSeq(s, k + 1, Len(s)))
          ELSE <<c>> \o RemoveBracketed(Tail(s))

\* re.sub(r'^[0-9\s\-]+', '', name)
RECURSIVE DropNumericPrefix(_)
DropNumericPrefix(s) ==
  IF s # <<>> /\ Head(s) \in (Digits \cup Whitespace \cup {"-"})
  THEN DropNumericPrefix(Tail(s)) ELSE s

Separators == Whitespace \cup {"_", "-", ":"}

\* re.sub(r'[\s_\-:]+', ' ', name)
RECURSIVE CollapseSeparators(_)
CollapseSeparators(s) ==
  IF s = <<>> THEN <<>>
  ELSE IF Head(s) \in Separators
       THEN IF Len(s) > 1 /\ s[2] \in Separators
            THEN CollapseSeparators(Tail(s))
            ELSE <<" ">> \o CollapseSeparators(Tail(s))
       ELSE <<Head(s)>> \o CollapseSeparators(Tail(s))

KeptChars == Range(Lowers) \cup Range(Uppers) \cup Digits \cup Whitespace \cup {"'"}

\* re.sub(r"[^a-zA-Z0-9\s']", '', name)
StripSpecial(s) == SelectSeq(s, LAMBDA c : c \in KeptChars)

normalize_name(name) ==
  LET a == Strip(RemoveBracketed(name))
      b == Strip(DropNumericPrefix(a))
      c == CollapseSeparators(b)
      d == StripSpecial(c)
  IN Strip(LowerStr(d))

\* ----------------------------------------------------- get_rom_rank_vector
get_rom_rank_vector(filename, ranking_criteria) ==
  [i \in 1..Len(ranking_criteria) |->
     IF IsSubstring(ranking_criteria[i], filename) THEN 1 ELSE 0]

\* Python's list comparison a > b: decided at the first differing element,
\* otherwise by length
RECURSIVE ListGreater(_, _)
ListGreater(a, b) ==
  IF a = <<>> THEN FALSE
  ELSE IF b = <<>> THEN TRUE
  ELSE IF Head(a) # Head(b) THEN Head(a) > Head(b)
  ELSE ListGreater(Tail(a), Tail(b))


\* ------------------------------------------------------------ configuration
\* config['rom_source_dir'], config['rom_destination_dir'], config['archive_dir']
\* as pathlib parts; three distinct directories, none inside another
rom_source_dir == << <<"r","o","m","s">> >>
rom_destination_dir == << <<"s","o","r","t","e","d">> >>
archive_dir == << <<"a","r","c","h","i","v","e">> >>

\* config['ranking_criteria'], config['excluded_dirs'],
\* config['excluded_extensions'] as written in the configuration file
ranking_criteria == << <<"[","!","]">>, <<"(","U",")">> >>
config_excluded_dirs == << <<"I","M","G">> >>
config_excluded_extensions == << <<".","P","N","G">> >>

\* excluded_dirs = [d.lower() for d in config.get('excluded_dirs', [])]
excluded_dirs == {LowerStr(d) : d \in Range(config_excluded_dirs)}
\* excluded_extensions = [e.lower() for e in config.get('excluded_extensions', [])]
excluded_extensions == {LowerStr(e) : e \in Range(config_excluded_extensions)}

DotZipExt == <<".","z","i","p">>

\* --------------------------------------------------------------- file tree
SubDir == rom_source_dir \o << <<"s","u","b">> >>
ImgDir == rom_source_dir \o << <<"I","m","g">> >>

\* the directories of the input trees
SourceDirs == {rom_source_dir, SubDir, ImgDir}

G_zip == <<"G",".","z","i","p">>
G_ZIP == <<"G",".","Z","I","P">>
G_bin == <<"G",".","b","i","n">>
G_bang_zip == <<"G","[","!","]",".","z","i","p">>
G_U_zip == <<"G","(","U",")",".","z","i","p">>
G_png == <<"G",".","p","n","g">>
Dot_zip == <<".","z","i","p">>

\* the file names a directory of the input tree may hold
CandidateNames(d) ==
  IF d = rom_source_dir
  THEN <<G_zip, G_ZIP, G_bin, G_bang_zip, G_U_zip, G_png, Dot_zip>>
  ELSE IF d = SubDir THEN <<G_zip, G_bin, G_bang_zip>>
  ELSE <<G_zip, G_bin>>

Path(d, n) == [dir |-> d, name |-> n]

Candidates ==
  UNION {{Path(d, n) : n \in Range(CandidateNames(d))} : d \in SourceDirs}

\* the orders in which os.walk and rglob may list the files of `tree`: the
\* files of the top directory first, then the subdirectories one after the
\* other; which subdirectory comes first and the order of the names within
\* a directory are the filesystem's choice
Listings(tree) ==
  {s \in [1..Cardinality(tree) -> tree] :
     /\ \A i, j \in 1..Cardinality(tree) : i # j => s[i] # s[j]
     /\ \A i, j \in 1..Cardinality(tree) :
          (i < j /\ s[j].dir = rom_source_dir) => s[i].dir = rom_source_dir
     /\ \A i, j, k \in 1..Cardinality(tree) :
          (i < j /\ j < k /\ s[i].dir = s[k].dir) => s[j].dir = s[i].dir}

\* the directories os.walk yields, in order: the top directory, then each
\* subdirectory where the listing first reaches it
RECURSIVE WalkDirs(_, _)
WalkDirs(order, seen) ==
  IF order = <<>> THEN seen
  ELSE WalkDirs(Tail(order),
         IF \E i \in 1..Len(seen) : seen[i] = Head(order).dir
         THEN seen ELSE Append(seen, Head(order).dir))

InSource(p) == Len(p.dir) >= 1 /\ SubSeq(p.dir, 1, 1) = rom_source_dir

\* the directory the configured paths are relative to
Here == <<>>

\* a path test (stat) of an entry of directory d raises PermissionError: d or
\* a directory above it may not be searched
Unreachable(den, d) == \E k \in 0..Len(d) : SubSeq(d, 1, k) \in den

\* os.walk lists directory d: every directory above it may be searched (one
\* that cannot be entered is skipped silently, onerror being None)
Walkable(den, d) == \A k \in 0..(Len(d) - 1) : SubSeq(d, 1, k) \notin den

VARIABLES
  dry_run,       \* args.dry_run
  runs,          \* dry_run values of the runs to follow on the same tree
  fs,            \* the files: path |-> the path the file had before the run
  dirs,          \* which of source, destination, archive exist as directories
  listing,       \* the listing order of the initial source tree
  fs0, dirs0,    \* fs and dirs as they were before the run
  pc,            \* position in process_roms
  walkQ,         \* directories os.walk has still to yield
  roms_by_game,  \* the grouping, in insertion order
  gi,            \* index of the next group to process
  selected,      \* per processed group: key, members, best_rom, ranked
  log,           \* the logger's records, in order
  relocs,        \* the calls of handle_file_move, in order
  failed,        \* files whose os.remove / shutil.move raised
  denied,        \* directories the process may list but not search: a
                 \* path test inside them raises PermissionError
  readonly,      \* directories in which the process may not create entries
  prevLog, prevGroups,   \* log and grouping of the preceding run
  nname, nonce, ntwice, npc   \* normalize_name applied once and twice

vars == <<dry_run, runs, fs, dirs, listing, fs0, dirs0, pc, walkQ, roms_by_game,
          gi, selected, log, relocs, failed, denied, readonly, prevLog,
          prevGroups, nname, nonce, ntwice, npc>>

runVars == <<dry_run, runs, fs, dirs, listing, fs0, dirs0, pc, walkQ,
             roms_by_game, gi, selected, log, relocs, failed, denied, readonly,
             prevLog, prevGroups>>
normVars == <<nname, nonce, ntwice, npc>>

\* a log record; src or dst is <<>> when the message does not carry it
Rec(level, msg, src, dst) == [level |-> level, msg |-> msg, src |-> src, dst |-> dst]


\* ------------------------------------------------------ filesystem primitives
\* os.remove
Remove(f, p) == [q \in (DOMAIN f) \ {p} |-> f[q]]

\* shutil.move that returns: the file leaves src and whatever dst held is
\* replaced
Move(f, src, dst) ==
  [q \in ((DOMAIN f) \ {src}) \cup {dst} |-> IF q = dst THEN f[src] ELSE f[q]]

\* shutil.move that raises after its copy step (os.rename refused, the file
\* copied to dst, os.unlink(src) refused): the file is at src and at dst
CopyOnly(f, src, dst) ==
  [q \in (DOMAIN f) \cup {dst} |-> IF q = dst THEN f[src] ELSE f[q]]

\* what a copy cut short leaves at the target: the beginning of the file
Part(p) == [part |-> p]

\* shutil.move that raises inside its copy step (os.rename refused, the
\* device of dst full): the file is at src, dst holds a truncated copy
CopyPart(f, src, dst) ==
  [q \in (DOMAIN f) \cup {dst} |-> IF q = dst THEN Part(f[src]) ELSE f[q]]

\* the filenames os.walk / rglob report for directory d: the files of the
\* initial listing that are still there
ListDir(f, order, d) ==
  LET here == SelectSeq(order, LAMBDA p : p.dir = d /\ p \in DOMAIN f)
  IN [i \in 1..Len(here) |-> here[i].name]

\* ------------------------------------------------ cleanup_unzipped_duplicates
\* the running state handed from statement to statement
\* raised: an exception is on its way out of process_roms
World(f, l, r, x) ==
  [fs |-> f, log |-> l, relocs |-> r, failed |-> x, raised |-> FALSE]

zip_basenames(filenames) ==
  {Stem(n) : n \in {m \in Range(filenames) : EndsWith(LowerStr(m), DotZipExt)}}

files_to_remove(dirpath, filenames) ==
  LET marked == SelectSeq(filenames, LAMBDA n :
                  /\ Stem(n) \in zip_basenames(filenames)
                  /\ LowerStr(Suffix(n)) # DotZipExt
                  /\ LowerStr(Suffix(n)) \notin excluded_extensions)
  IN [i \in 1..Len(marked) |-> Path(dirpath, marked[i])]

\* one file's os.remove raises: chosen by the filesystem, or certain because
\* the file's directory may not be searched
RemoveRaises(den, dirpath, marked, chosen) ==
  chosen \cup (IF dirpath \in den THEN Range(marked) ELSE {})

\* for file_path in files_to_remove: ... ; `raising` are the files whose
\* os.remove raises
RECURSIVE RemoveLoop(_, _, _, _)
RemoveLoop(w, files, dry, raising) ==
  IF files = <<>> THEN w
  ELSE LET file_path == Head(files)
           w1 == IF dry
                 THEN [w EXCEPT !.log = Append(@,
                         Rec("INFO", "DRY RUN: DELETE", file_path, <<>>))]
                 ELSE IF file_path \in raising
                 THEN [w EXCEPT !.log = @ \o
                         <<Rec("INFO", "DELETE", file_path, <<>>),
                           Rec("ERROR", "Failed to delete file", file_path, <<>>)>>,
                                !.failed = @ \cup {file_path}]
                 ELSE [w EXCEPT !.log = Append(@,
                         Rec("INFO", "DELETE", file_path, <<>>)),
                                !.fs = Remove(@, file_path)]
       IN RemoveLoop(w1, Tail(files), dry, raising)

\* one iteration of `for dirpath, _, filenames in os.walk(source_dir)`
CleanupDir(w, dirpath, filenames, dry, den, chosen) ==
  IF zip_basenames(filenames) = {} THEN w
  ELSE LET marked == files_to_remove(dirpath, filenames)
       IN RemoveLoop(w, marked, dry, RemoveRaises(den, dirpath, marked, chosen))

\* ------------------------------------------------------------ handle_file_move
\* what the filesystem refuses during one group: `raising` are the files
\* whose shutil.move raises; for those in `copying` it raises after the file
\* was copied to the target, for those in `partial` it raises while copying
\* (device full) and the exception names source and target, for those in
\* `atTarget` the exception names the target only, for the others the source
\* only; `denied` as the variable
Faults(raising, copying, partial, atTarget, den) ==
  [raising |-> raising, copying |-> copying, partial |-> partial,
   atTarget |-> atTarget, denied |-> den]

\* the error record of line 117: the text is the exception's, which names
\* the source path, the target path, or both
MoveError(source_path, dest_path, is_archive, faults) ==
  LET msg == IF is_archive THEN "Failed to archive file"
             ELSE "Failed to move file"
  IN IF source_path \in faults.partial
     THEN Rec("ERROR", msg, source_path, dest_path)
     ELSE IF source_path \in faults.atTarget
     THEN Rec("ERROR", msg, <<>>, dest_path)
     ELSE Rec("ERROR", msg, source_path, <<>>)

\* lines 112-117: the try block
TryMove(w, source_path, dest_path, is_archive, faults) ==
  LET action == IF is_archive THEN "ARCHIVE" ELSE "MOVE"
  IN IF source_path \in faults.raising
     THEN [w EXCEPT !.log = @ \o
             <<Rec("INFO", action, source_path, dest_path),
               MoveError(source_path, dest_path, is_archive, faults)>>,
                    !.failed = @ \cup {source_path},
                    !.fs = IF source_path \in faults.partial
                           THEN CopyPart(@, source_path, dest_path)
                           ELSE IF source_path \in faults.copying
                           THEN CopyOnly(@, source_path, dest_path) ELSE @]
     ELSE [w EXCEPT !.log = Append(@,
             Rec("INFO", action, source_path, dest_path)),
                    !.fs = Move(@, source_path, dest_path)]

\* a call of handle_file_move, as the claims read it: whether the target
\* path held a file when it was called, and whether the call raised
Reloc(w, source_path, dest_path, is_archive, raised) ==
  [src |-> source_path, dst |-> dest_path, is_archive |-> is_archive,
   existed |-> dest_path \in DOMAIN w.fs, raised |-> raised]

\* dest_path.exists() of line 106 is outside the try block: in a directory
\* the process may not search it raises, and the exception leaves
\* handle_file_move before anything is logged
handle_file_move(w, source_path, dest_path, dry, is_archive, faults) ==
  IF Unreachable(faults.denied, dest_path.dir)
  THEN [w EXCEPT !.raised = TRUE,
                 !.relocs = Append(@, Reloc(w, source_path, dest_path,
                                            is_archive, TRUE))]
  ELSE LET w1 == [w EXCEPT !.relocs =
                    Append(@, Reloc(w, source_path, dest_path, is_archive, FALSE))]
       IN IF dest_path \in DOMAIN w.fs
          THEN [w1 EXCEPT !.log = Append(@,
                  Rec("WARNING", IF is_archive THEN "SKIPPING ARCHIVE"
                                   ELSE "SKIPPING MOVE", <<>>, dest_path))]
          ELSE IF dry
          THEN [w1 EXCEPT !.log = Append(@,
                  Rec("INFO", IF is_archive THEN "DRY RUN: ARCHIVE"
                                ELSE "DRY RUN: MOVE", source_path, dest_path))]
          ELSE TryMove(w1, source_path, dest_path, is_archive, faults)

\* -------------------------------------------------- process_roms: the scan
IsExcludedFile(filepath) ==
  \/ LowerStr(Suffix(filepath.name)) \in excluded_extensions
  \/ \E i \in 1..Len(filepath.dir) : LowerStr(filepath.dir[i]) \in excluded_dirs

game_key(filepath) ==
  <<normalize_name(Stem(filepath.name)), Suffix(filepath.name)>>

\* roms_by_game[game_key].append(filepath), the dict kept in insertion order
AddToGroup(groups, filepath) ==
  LET key == game_key(filepath)
  IN IF \E i \in 1..Len(groups) : groups[i].key = key
     THEN [i \in 1..Len(groups) |->
             IF groups[i].key = key
             THEN [groups[i] EXCEPT !.paths = Append(@, filepath)]
             ELSE groups[i]]
     ELSE Append(groups, [key |-> key, paths |-> <<filepath>>])

\* for filepath in source_dir.rglob('*'): ...
RECURSIVE GroupLoop(_, _)
GroupLoop(files, groups) ==
  IF files = <<>> THEN groups
  ELSE GroupLoop(Tail(files),
         IF IsExcludedFile(Head(files)) THEN groups
         ELSE AddToGroup(groups, Head(files)))

\* ------------------------------------------- process_roms: rank and relocate
\* the ranking loop with >= in place of >: the last maximal vector wins
RECURSIVE RankLoop_lastWins(_, _)
RankLoop_lastWins(rom_paths, best) ==
  IF rom_paths = <<>> THEN best
  ELSE LET rom_path == Head(rom_paths)
           rank_vector == get_rom_rank_vector(rom_path.name, ranking_criteria)
       IN RankLoop_lastWins(Tail(rom_paths),
            IF best = <<>> \/ ~ListGreater(best[2], rank_vector)
            THEN <<rom_path, rank_vector>>
            ELSE best)

\* for rom_path in rom_paths: ... ; best is <<>> for None, else
\* <<best_rom, best_rank_vector>>
RECURSIVE RankLoop(_, _)
RankLoop(rom_paths, best) ==
  IF rom_paths = <<>> THEN best
  ELSE LET rom_path == Head(rom_paths)
           rank_vector == get_rom_rank_vector(rom_path.name, ranking_criteria)
       IN RankLoop(Tail(rom_paths),
            IF best = <<>> \/ ListGreater(rank_vector, best[2])
            THEN <<rom_path, rank_vector>>
            ELSE best)

\* the archive loop sending the losers to the destination directory
RECURSIVE ArchiveLoop_toDest(_, _, _, _, _)
ArchiveLoop_toDest(w, rom_paths, best_rom, dry, faults) ==
  IF rom_paths = <<>> \/ w.raised THEN w
  ELSE LET rom_path == Head(rom_paths)
           w1 == IF rom_path # best_rom
                 THEN handle_file_move(w, rom_path,
                        Path(rom_destination_dir, rom_path.name),
                        dry, TRUE, faults)
                 ELSE w
       IN ArchiveLoop_toDest(w1, Tail(rom_paths), best_rom, dry, faults)

\* for rom_path in rom_paths: if rom_path != best_rom: handle_file_move(...);
\* an exception out of handle_file_move ends the loop
RECURSIVE ArchiveLoop(_, _, _, _, _)
ArchiveLoop(w, rom_paths, best_rom, dry, faults) ==
  IF rom_paths = <<>> \/ w.raised THEN w
  ELSE LET rom_path == Head(rom_paths)
           w1 == IF rom_path # best_rom
                 THEN handle_file_move(w, rom_path, Path(archive_dir, rom_path.name),
                                       dry, TRUE, faults)
                 ELSE w
       IN ArchiveLoop(w1, Tail(rom_paths), best_rom, dry, faults)

\* the body of `for (game_name, ext), rom_paths in roms_by_game.items()`;
\* sel.complete says that the body ran to its end
ProcessOne(w, group, dry, faults) ==
  LET rom_paths == group.paths
  IN IF Len(rom_paths) = 1
     THEN LET w1 == handle_file_move(
                      [w EXCEPT !.log = Append(@,
                         Rec("INFO", "Found single version", rom_paths[1], <<>>))],
                      rom_paths[1], Path(rom_destination_dir, rom_paths[1].name),
                      dry, FALSE, faults)
          IN [w |-> w1,
              sel |-> [key |-> group.key, paths |-> rom_paths,
                       best |-> <<rom_paths[1]>>, ranked |-> FALSE,
                       complete |-> ~w1.raised]]
     ELSE LET best == RankLoop(rom_paths, <<>>)
          IN IF best # <<>>
             THEN LET best_rom == best[1]
                      w1 == [w EXCEPT !.log = Append(@,
                               Rec("INFO", "Best version", best_rom, <<>>))]
                      w2 == handle_file_move(w1, best_rom,
                              Path(rom_destination_dir, best_rom.name),
                              dry, FALSE, faults)
                      w3 == ArchiveLoop(w2, rom_paths, best_rom, dry, faults)
                  IN [w |-> w3,
                      sel |-> [key |-> group.key, paths |-> rom_paths,
                               best |-> <<best_rom>>, ranked |-> TRUE,
                               complete |-> ~w3.raised]]
             ELSE [w |-> [w EXCEPT !.log = Append(@,
                      Rec("WARNING", "Could not determine a best version",
                          <<>>, <<>>))],
                   sel |-> [key |-> group.key, paths |-> rom_paths,
                            best |-> <<>>, ranked |-> TRUE, complete |-> TRUE]]


\* ------------------------------------------------------------------- states
PreStates == {"absent", "empty", "held", "locked", "lockedHeld"}

\* a directory outside the source tree before the run: absent, empty,
\* holding one file named G.zip, or without search permission for the
\* process (mode 000, process not root), empty or holding G.zip
PreFiles(d, st) ==
  IF st \in {"held", "lockedHeld"} THEN {Path(d, G_zip)} ELSE {}
PreDirs(d, st) == IF st = "absent" THEN {} ELSE {d}
PreDenied(d, st) == IF st \in {"locked", "lockedHeld"} THEN {d} ELSE {}

Trees == {t \in SUBSET Candidates : Cardinality(t) <= MaxFiles}

\* the directories of `tree` that the process may be allowed to list but
\* not to search (mode r--), and the directory above the configured ones
MayBeDenied(tree) == {Here, rom_source_dir} \cup {p.dir : p \in tree}

RunInit(dry, more) ==
  /\ dry_run = dry
  /\ runs = more
  /\ \E srcThere \in BOOLEAN, tree \in Trees,
        dst \in PreStates, arc \in PreStates :
       /\ srcThere \/ tree = {}
       /\ listing \in Listings(tree)
       /\ LET files == tree \cup PreFiles(rom_destination_dir, dst)
                            \cup PreFiles(archive_dir, arc)
          IN /\ fs = [p \in files |-> p]
             /\ fs0 = [p \in files |-> p]
       /\ LET ds == (IF srcThere THEN {rom_source_dir} ELSE {})
                    \cup PreDirs(rom_destination_dir, dst)
                    \cup PreDirs(archive_dir, arc)
          IN dirs = ds /\ dirs0 = ds
       /\ \E den \in SUBSET MayBeDenied(tree) :
            /\ rom_source_dir \in den => srcThere
            /\ denied = den \cup PreDenied(rom_destination_dir, dst)
                            \cup PreDenied(archive_dir, arc)
       \* a directory above that may not be written changes a run only when
       \* a directory has to be made in it
       /\ readonly \in SUBSET {Here}
       /\ Here \in readonly => "absent" \in {dst, arc}
       /\ Cardinality(denied) + Cardinality(readonly) <= MaxDenied
  /\ pc = "start"
  /\ walkQ = <<>>
  /\ roms_by_game = <<>>
  /\ gi = 1
  /\ selected = <<>>
  /\ log = <<>>
  /\ relocs = <<>>
  /\ failed = {}
  /\ prevLog = <<>>
  /\ prevGroups = <<>>

NormIdle ==
  /\ nname = <<>>
  /\ nonce = <<>>
  /\ ntwice = <<>>
  /\ npc = "idle"

\* one run of process_roms(config, dry_run), dry or live
Init == (\E dry \in BOOLEAN : RunInit(dry, <<>>)) /\ NormIdle

\* ------------------------------------------------------------------ actions
\* process_roms, lines 123-132: the source directory is missing
SourceMissing ==
  /\ pc = "start"
  /\ Here \notin denied
  /\ rom_source_dir \notin dirs
  /\ log' = log \o <<Rec("INFO", "RomSorter Start", <<>>, <<>>),
                     Rec("ERROR", "Source directory not found", <<>>, <<>>)>>
  /\ pc' = "done"
  /\ UNCHANGED <<dry_run, runs, fs, dirs, listing, fs0, dirs0, walkQ,
                 roms_by_game, gi, selected, relocs, failed, denied, readonly,
                 prevLog, prevGroups>>
  /\ UNCHANGED normVars

\* source_dir.is_dir() of line 130 and the mkdir calls of lines 135-136 are
\* in no try block: is_dir raises when the directory above may not be
\* searched, mkdir when a directory is to be made where none may be
BeginRaises(den, ro, ds) ==
  \/ Here \in den
  \/ Here \in ro /\ ~({rom_destination_dir, archive_dir} \subseteq ds)

\* process_roms, lines 123-149: the directories are made, the walk starts
Begin ==
  /\ pc = "start"
  /\ Here \in denied \/ rom_source_dir \in dirs
  /\ log' = Append(log, Rec("INFO", "RomSorter Start", <<>>, <<>>))
  /\ IF BeginRaises(denied, readonly, dirs)
     THEN /\ pc' = "raised"
          /\ UNCHANGED <<dirs, walkQ>>
     ELSE /\ dirs' = dirs \cup {rom_destination_dir, archive_dir}
          /\ walkQ' = SelectSeq(WalkDirs(listing, <<rom_source_dir>>),
                                LAMBDA d : Walkable(denied, d))
          /\ pc' = "clean"
  /\ UNCHANGED <<dry_run, runs, fs, listing, fs0, dirs0, roms_by_game, gi,
                 selected, relocs, failed, denied, readonly,
                 prevLog, prevGroups>>
  /\ UNCHANGED normVars

\* the failures the filesystem chose freely, which the model bounds
Chosen(den, files) == {p \in files : p.dir \notin den}

\* cleanup_unzipped_duplicates: one directory of the walk
CleanDir ==
  /\ pc = "clean"
  /\ walkQ # <<>>
  /\ LET dirpath == Head(walkQ)
         filenames == ListDir(fs, listing, dirpath)
         mayRaise == IF dry_run \/ dirpath \in denied THEN {}
                     ELSE Range(files_to_remove(dirpath, filenames))
     IN \E chosen \in SUBSET mayRaise :
          /\ Cardinality(Chosen(denied, failed) \cup chosen) <= MaxFailures
          /\ LET w == CleanupDir(World(fs, log, relocs, failed),
                                 dirpath, filenames, dry_run, denied, chosen)
             IN /\ fs' = w.fs
                /\ log' = w.log
                /\ failed' = w.failed
  /\ walkQ' = Tail(walkQ)
  /\ pc' = IF Tail(walkQ) = <<>> THEN "scan" ELSE "clean"
  /\ UNCHANGED <<dry_run, runs, dirs, listing, fs0, dirs0, roms_by_game, gi,
                 selected, relocs, denied, readonly, prevLog, prevGroups>>
  /\ UNCHANGED normVars

\* filepath.is_file() of line 154 is in no try block: it raises for an entry
\* of a directory that may not be searched
ScanRaises(den, files) ==
  \E i \in 1..Len(files) : Unreachable(den, files[i].dir)

\* process_roms, lines 152-176: the grouping
Scan ==
  /\ pc = "scan"
  /\ LET files == SelectSeq(listing, LAMBDA p : p \in DOMAIN fs)
         groups == GroupLoop(files, <<>>)
     IN IF ScanRaises(denied, files)
        THEN /\ pc' = "raised"
             /\ UNCHANGED <<roms_by_game, log>>
        ELSE /\ roms_by_game' = groups
             /\ log' = Append(log, Rec("INFO", "Found unique games", <<>>, <<>>))
             /\ pc' = IF groups = <<>> THEN "finish" ELSE "process"
  /\ gi' = 1
  /\ UNCHANGED <<dry_run, runs, fs, dirs, listing, fs0, dirs0, walkQ,
                 selected, relocs, failed, denied, readonly,
                 prevLog, prevGroups>>
  /\ UNCHANGED normVars

\* process_roms, lines 179-213: one group; an exception out of
\* handle_file_move is caught nowhere and ends process_roms
ProcessGroup ==
  /\ pc = "process"
  /\ gi <= Len(roms_by_game)
  /\ LET group == roms_by_game[gi]
         mayRaise == IF dry_run THEN {} ELSE Range(group.paths)
     IN \E raising \in SUBSET mayRaise, copying \in SUBSET mayRaise,
           partial \in SUBSET mayRaise, atTarget \in SUBSET mayRaise :
          /\ copying \subseteq raising
          /\ partial \subseteq raising \ copying
          /\ atTarget \subseteq raising \ partial
          /\ Cardinality(Chosen(denied, failed) \cup raising) <= MaxFailures
          /\ LET r == ProcessOne(World(fs, log, relocs, failed), group, dry_run,
                                 Faults(raising, copying, partial, atTarget, denied))
             IN /\ fs' = r.w.fs
                /\ log' = r.w.log
                /\ relocs' = r.w.relocs
                /\ failed' = r.w.failed
                /\ selected' = Append(selected, r.sel)
                /\ gi' = IF r.w.raised THEN gi ELSE gi + 1
                /\ pc' = IF r.w.raised THEN "raised"
                         ELSE IF gi = Len(roms_by_game) THEN "finish"
                         ELSE "process"
  /\ UNCHANGED <<dry_run, runs, dirs, listing, fs0, dirs0, walkQ,
                 roms_by_game, denied, readonly,
                 prevLog, prevGroups>>
  /\ UNCHANGED normVars

\* process_roms, line 215
Finish ==
  /\ pc = "finish"
  /\ log' = Append(log, Rec("INFO", "RomSorter Finished", <<>>, <<>>))
  /\ pc' = "done"
  /\ UNCHANGED <<dry_run, runs, fs, dirs, listing, fs0, dirs0, walkQ,
                 roms_by_game, gi, selected, relocs, failed, denied, readonly,
                 prevLog, prevGroups>>
  /\ UNCHANGED normVars

Next == SourceMissing \/ Begin \/ CleanDir \/ Scan \/ ProcessGroup \/ Finish

Spec == Init /\ [][Next]_vars

\* --------------------------------------- a dry run followed by a live run
\* process_roms called again on the tree the preceding run left
NextRun ==
  /\ pc \in {"done", "raised"}
  /\ runs # <<>>
  /\ dry_run' = Head(runs)
  /\ runs' = Tail(runs)
  /\ prevLog' = log
  /\ prevGroups' = roms_by_game
  /\ fs0' = fs
  /\ dirs0' = dirs
  /\ pc' = "start"
  /\ walkQ' = <<>>
  /\ roms_by_game' = <<>>
  /\ gi' = 1
  /\ selected' = <<>>
  /\ log' = <<>>
  /\ relocs' = <<>>
  /\ failed' = {}
  /\ UNCHANGED <<fs, dirs, listing, denied, readonly>>
  /\ UNCHANGED normVars

InitPair == RunInit(TRUE, <<FALSE>>) /\ NormIdle

NextPair ==
  SourceMissing \/ Begin \/ CleanDir \/ Scan \/ ProcessGroup \/ Finish \/ NextRun

SpecPair == InitPair /\ [][NextPair]_vars

\* ------------------------------------------- normalize_name on its own
NormChars == {"a", "A", "1", " ", "-", "_", ".", "(", ")", "'"}

RECURSIVE StringsUpTo(_)
StringsUpTo(n) ==
  IF n = 0 THEN {<<>>}
  ELSE LET shorter == StringsUpTo(n - 1)
       IN shorter \cup {Append(t, c) : t \in shorter, c \in NormChars}

RunIdle ==
  /\ dry_run = FALSE
  /\ runs = <<>>
  /\ fs = [p \in {} |-> p]
  /\ fs0 = [p \in {} |-> p]
  /\ dirs = {}
  /\ dirs0 = {}
  /\ listing = <<>>
  /\ pc = "idle"
  /\ walkQ = <<>>
  /\ roms_by_game = <<>>
  /\ gi = 1
  /\ selected = <<>>
  /\ log = <<>>
  /\ relocs = <<>>
  /\ failed = {}
  /\ denied = {}
  /\ readonly = {}
  /\ prevLog = <<>>
  /\ prevGroups = <<>>

InitNorm ==
  /\ RunIdle
  /\ nname \in StringsUpTo(MaxLen)
  /\ nonce = <<>>
  /\ ntwice = <<>>
  /\ npc = "input"

\* normalized = normalize_name(base_name)
NormalizeOnce ==
  /\ npc = "input"
  /\ nonce' = normalize_name(nname)
  /\ npc' = "once"
  /\ UNCHANGED <<nname, ntwice>>
  /\ UNCHANGED runVars

\* normalize_name applied to its own result
NormalizeTwice ==
  /\ npc = "once"
  /\ ntwice' = normalize_name(nonce)
  /\ npc' = "twice"
  /\ UNCHANGED <<nname, nonce>>
  /\ UNCHANGED runVars

NextNorm == NormalizeOnce \/ NormalizeTwice

SpecNorm == InitNorm /\ [][NextNorm]_vars


\* ================================================================== claims
Done == pc = "done"

\* the run got past the source-directory test
Ran == Done /\ rom_source_dir \in dirs0

SourceFiles0 == {p \in DOMAIN fs0 : InSource(p)}

\* the file that was at path p before the run is now at path q
At(p, q) == q \in DOMAIN fs /\ fs[q] = p

Holders(p) == {q \in DOMAIN fs : fs[q] = p}

Logged(level, msg, src, dst) ==
  \E i \in 1..Len(log) : log[i] = Rec(level, msg, src, dst)

InDest(p) == Path(rom_destination_dir, p.name)
InArchive(p) == Path(archive_dir, p.name)

StartedEmpty == \A p \in DOMAIN fs0 : InSource(p)

\* C1: after a dry run over an existing source directory the filesystem is
\* what it was before: the same files at the same paths and no directory
\* created.
C1_DryRunMutatesNothing ==
  (Ran /\ dry_run) => (fs = fs0 /\ dirs = dirs0)

\* the actions a log announces, with their paths, in order
ActionOf(msg) ==
  IF msg \in {"DELETE", "DRY RUN: DELETE"} THEN "DELETE"
  ELSE IF msg \in {"MOVE", "DRY RUN: MOVE"} THEN "MOVE"
  ELSE IF msg \in {"ARCHIVE", "DRY RUN: ARCHIVE"} THEN "ARCHIVE"
  ELSE IF msg \in {"SKIPPING MOVE", "SKIPPING ARCHIVE"} THEN msg
  ELSE "none"

Narrative(l) ==
  LET acts == SelectSeq(l, LAMBDA e : ActionOf(e.msg) # "none")
  IN [i \in 1..Len(acts) |-> <<ActionOf(acts[i].msg), acts[i].src, acts[i].dst>>]

\* C2: a dry run and the live run that follows it on the same tree announce
\* the same actions with the same paths in the same order, and find the same
\* groups.
C2_DryAndLiveSameNarrative ==
  (Done /\ runs = <<>> /\ ~dry_run /\ failed = {} /\ rom_source_dir \in dirs0)
    => (Narrative(prevLog) = Narrative(log) /\ prevGroups = roms_by_game)

LiveClean == Ran /\ ~dry_run /\ failed = {} /\ StartedEmpty

\* C3 as claimed: after a live run without failures that started with empty
\* destination and archive, every winner is in the destination, every other
\* member of its group is in the archive, and no grouped file is left in the
\* source tree.
C3_EveryMemberPlaced ==
  LiveClean =>
    \A i \in 1..Len(selected) :
      LET g == selected[i]
      IN /\ g.best # <<>>
         /\ At(g.best[1], InDest(g.best[1]))
         /\ \A j \in 1..Len(g.paths) :
              /\ g.paths[j] # g.best[1] => At(g.paths[j], InArchive(g.paths[j]))
              /\ g.paths[j] \notin DOMAIN fs

\* an earlier loser of the group has the same file name
ShadowedLoser(g, j) ==
  \E k \in 1..(j - 1) :
    g.paths[k] # g.best[1] /\ g.paths[k].name = g.paths[j].name

\* C3 amended: after such a run every winner is in the destination; a loser
\* is in the archive unless an earlier loser of its group has the same file
\* name, and then it is still at its original path.
C3_MembersPlacedUnlessNameTaken ==
  LiveClean =>
    \A i \in 1..Len(selected) :
      LET g == selected[i]
      IN /\ g.best # <<>>
         /\ At(g.best[1], InDest(g.best[1]))
         /\ \A j \in 1..Len(g.paths) :
              g.paths[j] # g.best[1] =>
                IF ShadowedLoser(g, j)
                THEN At(g.paths[j], g.paths[j])
                ELSE At(g.paths[j], InArchive(g.paths[j]))

C3_Witness ==
  /\ LiveClean
  /\ \E i \in 1..Len(selected) :
       LET g == selected[i]
       IN \E j, k \in 1..Len(g.paths) :
            /\ g.paths[j] # g.best[1]
            /\ g.paths[k] # g.best[1]
            /\ ShadowedLoser(g, j)
            /\ At(g.paths[j], g.paths[j])
            /\ At(g.paths[k], InArchive(g.paths[k]))

\* the calls of handle_file_move up to the i-th that met a file at target
\* path d, and the SKIPPING warnings logged for d
Collisions(i, d) ==
  {j \in 1..i : relocs[j].existed /\ relocs[j].dst = d}
Warnings(d) ==
  {j \in 1..Len(log) :
     /\ log[j].level = "WARNING"
     /\ log[j].msg \in {"SKIPPING MOVE", "SKIPPING ARCHIVE"}
     /\ log[j].dst = d}

\* C4: a relocation whose target path already held a file leaves the source
\* file at its original path and logs a SKIPPING MOVE / SKIPPING ARCHIVE
\* warning of its kind for that target (one warning for each such
\* relocation), in dry-run and in live mode.
C4_CollisionSkips ==
  \A i \in 1..Len(relocs) :
    relocs[i].existed =>
      /\ At(relocs[i].src, relocs[i].src)
      /\ Logged("WARNING",
                IF relocs[i].is_archive THEN "SKIPPING ARCHIVE" ELSE "SKIPPING MOVE",
                <<>>, relocs[i].dst)
      /\ Cardinality(Warnings(relocs[i].dst))
           >= Cardinality(Collisions(i, relocs[i].dst))

IsZipName(n) == EndsWith(LowerStr(n), DotZipExt)

DeletedByCleaner(p) == Logged("INFO", "DELETE", p, <<>>) /\ Holders(p) = {}

\* the same directory holds a .zip file with the same stem, and p's own
\* extension is neither .zip nor excluded
ShadowedByZip(p) ==
  /\ \E q \in SourceFiles0 :
       q.dir = p.dir /\ IsZipName(q.name) /\ Stem(q.name) = Stem(p.name)
  /\ LowerStr(Suffix(p.name)) # DotZipExt
  /\ LowerStr(Suffix(p.name)) \notin excluded_extensions

\* C5: in a live run without failures the cleaner deletes exactly the files
\* shadowed by a .zip of the same stem in the same directory; it deletes
\* nothing in a directory without a .zip file, and never a .zip file.
C5_CleanerDeletesOnlyShadowed ==
  (Ran /\ ~dry_run /\ failed = {}) =>
    \A p \in SourceFiles0 :
      /\ DeletedByCleaner(p) <=> ShadowedByZip(p)
      /\ (~\E q \in SourceFiles0 : q.dir = p.dir /\ IsZipName(q.name))
           => ~DeletedByCleaner(p)
      /\ IsZipName(p.name) => ~DeletedByCleaner(p)

\* rank vector a is lexicographically below b (same length)
LexBelow(a, b) ==
  \E i \in 1..Len(a) : a[i] < b[i] /\ \A j \in 1..(i - 1) : a[j] = b[j]

VecOf(p) ==
  [i \in 1..Len(ranking_criteria) |->
     IF IsSubstring(ranking_criteria[i], p.name) THEN 1 ELSE 0]

Called(src, dst, arch) ==
  \E i \in 1..Len(relocs) :
    relocs[i].src = src /\ relocs[i].dst = dst /\ relocs[i].is_archive = arch

\* C6: in a group of two or more the winner is the first member, in
\* discovery order, whose rank vector no member's vector exceeds; the others
\* are archived; the no-winner branch is never taken.  The member of a
\* single-member group wins unranked and is sent to the destination.  (In a
\* group that an exception cut short the calls made so far are the right
\* ones.)
C6_FirstMaximalWins ==
  /\ ~\E i \in 1..Len(log) : log[i].msg = "Could not determine a best version"
  /\ \A i \in 1..Len(selected) :
       LET g == selected[i]
       IN /\ Len(g.best) = 1
          /\ \A m \in 1..Len(g.paths) :
               \A r \in 1..Len(relocs) :
                 relocs[r].src = g.paths[m] =>
                   /\ relocs[r].is_archive = (g.paths[m] # g.best[1])
                   /\ relocs[r].dst = IF g.paths[m] = g.best[1]
                                      THEN InDest(g.paths[m])
                                      ELSE InArchive(g.paths[m])
          /\ g.complete => \A m \in 1..Len(g.paths) :
               Called(g.paths[m],
                      IF g.paths[m] = g.best[1] THEN InDest(g.paths[m])
                      ELSE InArchive(g.paths[m]),
                      g.paths[m] # g.best[1])
          /\ IF Len(g.paths) = 1
             THEN g.best[1] = g.paths[1] /\ ~g.ranked
             ELSE /\ g.ranked
                  /\ \E k \in 1..Len(g.paths) :
                       /\ g.best[1] = g.paths[k]
                       /\ \A j \in 1..Len(g.paths) :
                            ~LexBelow(VecOf(g.paths[k]), VecOf(g.paths[j]))
                       /\ \A j \in 1..(k - 1) :
                            VecOf(g.paths[j]) # VecOf(g.paths[k])

C6_Witness ==
  /\ Done
  /\ \E i, s \in 1..Len(selected) :
       /\ Len(selected[s].paths) = 1
       /\ Len(selected[i].paths) >= 2
       /\ \E j, k \in 1..Len(selected[i].paths) :
            /\ j < k
            /\ selected[i].best[1] = selected[i].paths[j]
            /\ VecOf(selected[i].paths[j]) = VecOf(selected[i].paths[k])

\* C7: normalize_name applied to its own result returns that result.
C7_NormalizerIdempotent ==
  npc = "twice" => ntwice = nonce

\* the files the cleaner marks, from the tree as it was before the run
Marked0 ==
  UNION {Range(files_to_remove(d, ListDir(fs0, listing, d))) : d \in SourceDirs}

\* the run went through all of its work: the Finished notice is the last
\* record, every marked deletion and every member of every group was
\* attempted
RunCompleted ==
  /\ log # <<>>
  /\ log[Len(log)] = Rec("INFO", "RomSorter Finished", <<>>, <<>>)
  /\ \A p \in Marked0 :
       Logged("INFO", IF dry_run THEN "DRY RUN: DELETE" ELSE "DELETE", p, <<>>)
  /\ Len(selected) = Len(roms_by_game)
  /\ \A i \in 1..Len(roms_by_game) :
       \A j \in 1..Len(roms_by_game[i].paths) :
         \E r \in 1..Len(relocs) : relocs[r].src = roms_by_game[i].paths[j]

\* an error record for file p: one that names p, or one that names the
\* target and follows the notice of p's move
ErrorLogged(p) ==
  \E i \in 1..Len(log) :
    /\ log[i].level = "ERROR"
    /\ \/ log[i].src = p
       \/ /\ i > 1
          /\ log[i - 1].level = "INFO"
          /\ log[i - 1].src = p
          /\ log[i - 1].dst = log[i].dst

\* some statement of process_roms is ready to run: the guards of the actions
CanStep ==
  \/ pc = "start"
  \/ pc = "clean" /\ walkQ # <<>>
  \/ pc = "scan"
  \/ pc = "process" /\ gi <= Len(roms_by_game)
  \/ pc = "finish"

\* an exception that left handle_file_move has ended process_roms
MoveAborted ==
  pc = "raised" /\ relocs # <<>> /\ relocs[Len(relocs)].raised

\* C8: a delete or move that fails does not abort the run: no relocation
\* ends the run, the run is never stuck short of its end, at the end the
\* Finished notice is logged and every marked deletion and every member of
\* every group has been attempted, and each failing file has an error logged
\* and is still at its original path.
C8_FailedFileStaysAtItsPath ==
  /\ ~MoveAborted
  /\ (pc \in {"done", "raised"} \/ CanStep)
  /\ Ran => (RunCompleted /\ \A p \in failed : ErrorLogged(p) /\ At(p, p))

\* C9: no file is overwritten or lost: every file that was in destination or
\* archive is unchanged, and every file of the source tree is at exactly one
\* of its original path, destination/<name>, archive/<name>, or was deleted
\* by the cleaner.
C9_NoFileOverwrittenOrLost ==
  \A p \in DOMAIN fs0 :
    IF InSource(p)
    THEN /\ Holders(p) \subseteq {p, InDest(p), InArchive(p)}
         /\ Cardinality(Holders(p)) <= 1
         /\ Holders(p) = {} =>
              (~dry_run /\ Logged("INFO", "DELETE", p, <<>>) /\ p \in Marked0)
    ELSE At(p, p)

\* C10: a file with an excluded extension, or under a directory whose path
\* has an excluded segment, is at its original path after the run.
C10_ExcludedFilesUntouched ==
  Ran => \A p \in SourceFiles0 : IsExcludedFile(p) => At(p, p)

====
